---- MODULE Spec2Model ----
(***************************************************************************)
(* Scroll-driven animation pipeline of the portfolio page.                 *)
(*                                                                         *)
(* The model follows the refactored App component (src/unnamed/part_005),  *)
(* the Scene it renders (src/unnamed/part_001) and the mesh component      *)
(* (src/src/components/LiquidMesh.jsx).                                    *)
(*                                                                         *)
(* Numbers.  JavaScript numbers are modelled in fixed point: the integer n *)
(* stands for n / ONE.  Lengths on the page are counted in grid units; the *)
(* viewport is ViewportH units high.                                       *)
(***************************************************************************)
EXTENDS Integers, Sequences, FiniteSets, TLC

(***************************************************************************)
(* Bounds of the model                                                     *)
(***************************************************************************)
\* height of the viewport, in grid units
ViewportH == 5
\* height of every content section, in grid units (a full-height section)
SectionH == 5
\* mesh instances the renderer can hand out
MaxMesh == 2

(***************************************************************************)
(* Fixed-point arithmetic                                                  *)
(***************************************************************************)
ONE == 10^4
PI_FX == 31416
HALF_PI == PI_FX \div 2
TWO_PI == 2 * PI_FX

\* a * b of two fixed-point numbers
Mul(a, b) == (a * b) \div ONE

\* sin on [0, pi/2]: the Taylor polynomial up to x^7, in Horner form
SinQ(x) ==
  LET x2 == Mul(x, x)
      t3 == ONE - x2 \div 42
      t2 == ONE - Mul(x2, t3) \div 20
      t1 == ONE - Mul(x2, t2) \div 6
  IN  Mul(x, t1)

\* Math.sin on [0, 2 pi], by the symmetries of the sine
Sin(x) ==
  IF x <= HALF_PI THEN SinQ(x)
  ELSE IF x <= PI_FX THEN SinQ(PI_FX - x)
  ELSE IF x <= PI_FX + HALF_PI THEN 0 - SinQ(x - PI_FX)
  ELSE 0 - SinQ(TWO_PI - x)

(***************************************************************************)
(* Page layout: the sections of the page and the scroll range              *)
(***************************************************************************)
\* <section> elements under .content
NumSections == 7
\* the section that holds the .project elements
ProjectSection == 4
Sections == 1..NumSections
DocH == NumSections * SectionH
\* the largest scroll offset: the document's height less one viewport
MaxScroll == DocH - ViewportH
ScrollPos == 0..MaxScroll
SectionTop(i) == (i - 1) * SectionH
SectionBottom(i) == SectionTop(i) + SectionH
\* (variant: every section is taken for one with a .project element)
isProjectSectionEvery(i) == i \in Sections

\* section.querySelector('.project')
isProjectSection(i) == i = ProjectSection

(***************************************************************************)
(* Scroll triggers                                                         *)
(*                                                                         *)
(* A trigger has a start and an end scroll offset; its progress is the     *)
(* scroll offset clipped to that range.  An update that changes the        *)
(* clipped offset fires onEnter / onLeave / onEnterBack / onLeaveBack.     *)
(***************************************************************************)
\* n percent of the viewport height
Pct(n) == (n * ViewportH) \div 100

\* entry timeline: start 'top 80%', end 'top 20%'
EntryStart(i) == SectionTop(i) - Pct(80)
EntryEnd(i) == SectionTop(i) - Pct(20)
\* exit timeline: start 'bottom 60%', end 'bottom top'
ExitStart(i) == SectionBottom(i) - Pct(60)
ExitEnd(i) == SectionBottom(i)

Clip(lo, hi, s) == IF s <= lo THEN lo ELSE IF s >= hi THEN hi ELSE s

\* the callbacks one trigger fires when its clipped offset goes from a to b
TriggerFires(lo, hi, a, b) ==
  LET wasActive == a > lo /\ a < hi
      isActive == b > lo /\ b < hi
      toggled == wasActive # isActive
      stateChanged == toggled \/ ((b > lo) # (a > lo))
      action == IF b > lo /\ a = lo THEN "onEnter"
                ELSE IF b = hi THEN "onLeave"
                ELSE IF a = hi THEN "onEnterBack"
                ELSE "onLeaveBack"
  IN  IF a = b \/ ~stateChanged THEN <<>>
      ELSE IF toggled THEN <<action>>
      ELSE <<action, IF b = hi THEN "onLeave" ELSE "onLeaveBack">>

EntryFires(i, from, to) ==
  TriggerFires(EntryStart(i), EntryEnd(i),
               Clip(EntryStart(i), EntryEnd(i), from),
               Clip(EntryStart(i), EntryEnd(i), to))

ExitFires(i, from, to) ==
  TriggerFires(ExitStart(i), ExitEnd(i),
               Clip(ExitStart(i), ExitEnd(i), from),
               Clip(ExitStart(i), ExitEnd(i), to))

\* (variant: no onEnterBack callback)
EntryCallbackEnterOnly(i, cb) ==
  IF cb = "onEnter" /\ isProjectSection(i) THEN <<ONE>> ELSE <<>>

\* the setParticleMode call of one callback of the entry trigger
EntryCallback(i, cb) ==
  IF cb \in {"onEnter", "onEnterBack"} /\ isProjectSection(i) THEN <<ONE>> ELSE <<>>

\* the setParticleMode call of one callback of the exit trigger
ExitCallback(i, cb) ==
  IF cb \in {"onLeave", "onLeaveBack"} /\ isProjectSection(i) THEN <<0>> ELSE <<>>

RECURSIVE Flatten(_)
Flatten(ss) == IF ss = <<>> THEN <<>> ELSE Head(ss) \o Flatten(Tail(ss))

EntryCalls(i, from, to) ==
  LET f == EntryFires(i, from, to)
  IN  Flatten([k \in 1..Len(f) |-> EntryCallback(i, f[k])])

ExitCalls(i, from, to) ==
  LET f == ExitFires(i, from, to)
  IN  Flatten([k \in 1..Len(f) |-> ExitCallback(i, f[k])])

\* The setParticleMode calls of one ScrollTrigger.update, in order.  The
\* triggers are visited in creation order (per section: entry, then exit)
\* when scrolling forward and in the reverse order when scrolling backward.
SetParticleModeCalls(from, to) ==
  IF to >= from
  THEN Flatten([i \in 1..NumSections |->
                  EntryCalls(i, from, to) \o ExitCalls(i, from, to)])
  ELSE Flatten([k \in 1..NumSections |->
                  LET i == NumSections + 1 - k
                  IN  ExitCalls(i, from, to) \o EntryCalls(i, from, to)])

\* (variant: the calls add to the state, as a counter of enters would)
BatchedStateCounting(old, calls) == IF calls = <<>> THEN old ELSE old + calls[Len(calls)]

\* React keeps the value of the last setParticleMode call of a batch
BatchedState(old, calls) == IF calls = <<>> THEN old ELSE calls[Len(calls)]

(***************************************************************************)
(* Mesh Transform Mapper (the body trigger's onUpdate)                     *)
(***************************************************************************)
\* self.progress of the body trigger: the scrolled fraction of the page
Progress(s) == (s * ONE) \div MaxScroll

\* (variant: half a turn over the full scroll)
rotationYHalfTurn(progress) == Mul(progress, PI_FX)
rotationY(progress) == Mul(progress, PI_FX) * 2
rotationX(progress) == (Sin(Mul(progress, PI_FX)) * 3) \div 10
\* (variant: half a period, the argument of rotationX)
positionYHalfPeriod(progress) == (Sin(Mul(progress, PI_FX)) * 5) \div 10
positionY(progress) == (Sin(Mul(progress, PI_FX) * 2) * 5) \div 10
positionZ(progress) == progress * 2

MapTransform(progress) ==
  [ry |-> rotationY(progress), rx |-> rotationX(progress),
   py |-> positionY(progress), pz |-> positionZ(progress)]

\* a mesh as the renderer creates it: no rotation, at the origin
NewMesh == [ry |-> 0, rx |-> 0, py |-> 0, pz |-> 0]

(***************************************************************************)
(* Mesh / particle renderer                                                *)
(***************************************************************************)
\* (variant: value and target in each other's place)
LerpSwapped(x, y, t) == ((ONE - t) * y + t * x) \div ONE

\* THREE.MathUtils.lerp(x, y, t) = (1 - t) * x + t * y, rounded once
Lerp(x, y, t) == ((ONE - t) * x + t * y) \div ONE

\* values of a uniform in [0,1] a frame may start from: a grid and the edges
LerpSamples == {k * 500 : k \in 0..20} \cup {1, ONE - 1}

\* values of the particleMode prop in [0,1]: the two the page uses, the
\* middle, and values on either side of the visibility thresholds
ModeSamples ==
  {0, ONE \div 100, ONE \div 100 + 1, ONE \div 2,
   ONE - ONE \div 100 - 1, ONE - ONE \div 200, ONE}

\* (variant: the mesh is shown while it has any opacity)
meshVisibleAnyOpacity(mode) == ONE - mode > 0

\* <mesh visible={meshOpacity > 0.01}> with meshOpacity = 1 - currentParticleMode
meshVisible(mode) == ONE - mode > ONE \div 100

\* <points visible={currentParticleMode > 0.01}>
pointsVisible(mode) == mode > ONE \div 100

\* the lerp factor of uParticleMode, 0.05
ParticleLerp == (5 * ONE) \div 100

\* The Scene components of the repository, by the prop under which each
\* hands the scroll ref on: <LiquidMesh scrollRef={scrollRef} /> and
\* <LiquidMesh scrollProgress={scrollProgress} />
Scenes == {"scrollRef", "scrollProgress"}

\* The scrollRef prop LiquidMesh receives: the ref App made, or undefined
\* when Scene hands it on under another name
LiquidMeshScrollRef(sc) == IF sc = "scrollRef" THEN "ref" ELSE "undefined"

\* The uniform writes of useFrame: both materials exist once the mesh is
\* mounted; the first statement that reads scrollRef.current throws when
\* the prop is undefined, and the statements after it do not run.
useFrame(ref, progress, uScroll, uMode, mode) ==
  IF ref = "undefined"
  THEN [uScrollProgress |-> uScroll, uParticleMode |-> uMode, threw |-> TRUE]
  ELSE [uScrollProgress |-> progress,
        uParticleMode |-> [material |-> Lerp(uMode.material, mode, ParticleLerp),
                           particles |-> Lerp(uMode.particles, mode, ParticleLerp)],
        threw |-> FALSE]

\* The particleMode prop LiquidMesh receives: Scene takes only
\* { scrollRef, meshRef } and renders <LiquidMesh scrollRef ref />, so the
\* prop is absent and the parameter default 0 applies.
LiquidMeshParticleMode(appParticleMode) == 0

(***************************************************************************)
(* Section timelines                                                       *)
(*                                                                         *)
(* Times are in milliseconds.  Pixel values (y, blur) are in hundredths of *)
(* a pixel; opacity and scale are fixed-point numbers.  The timelines of   *)
(* one section, the Projects section, are followed.                        *)
(***************************************************************************)
\* the time one step of the animation ticker advances a playing timeline
TickMs == 500
\* characters of the section's heading
NumChars == 2
\* paragraphs of the section, and words per paragraph
NumParagraphs == 1
NumWords == 2
\* list items and stat / experience cards of the section
NumItems == 1
NumCards == 1

Max(a, b) == IF a >= b THEN a ELSE b
Min(a, b) == IF a <= b THEN a ELSE b

\* entryTl.fromTo(sectionContent, ..., 0): duration 1
ContentOffset == 0
ContentDuration == 1000
\* the end of a staggered child: offset + duration + stagger * (count - 1)
ChildEnd(offset, duration, stagger, count) == offset + duration + stagger * (count - 1)
HeadingEnd == ChildEnd(200, 800, 30, NumChars)
WordsEnd(pIndex) == ChildEnd(400 + pIndex * 150, 600, 40, NumWords)
ItemsEnd == ChildEnd(500, 600, 80, NumItems)
CardsEnd == ChildEnd(400, 700, 120, NumCards)
\* the duration of the entry timeline: the latest end of its children
EntryDuration ==
  Max(ContentOffset + ContentDuration,
      Max(HeadingEnd, Max(WordsEnd(NumParagraphs - 1), Max(ItemsEnd, CardsEnd))))

\* What a section holds: the characters of its heading (0: no heading), the
\* words of each of its paragraphs, its list items and its cards.
MaxChars == 6
MaxParas == 2
MaxWordsPer == 2
MaxListItems == 2
MaxCardCount == 2

WordSeqs == UNION {[1..n -> 1..MaxWordsPer] : n \in 0..MaxParas}
Compositions ==
  [chars : 0..MaxChars, words : WordSeqs, items : 0..MaxListItems, cards : 0..MaxCardCount]

\* the Projects section as the timelines above take it
ProjectsDom ==
  [chars |-> NumChars, words |-> [q \in 1..NumParagraphs |-> NumWords],
   items |-> NumItems, cards |-> NumCards]

\* (variant: every paragraph's words at the same position)
ChildOffsetSameForParagraphs(kind, pIndex) ==
  CASE kind = "content" -> ContentOffset
    [] kind = "heading" -> 200
    [] kind = "words" -> 400
    [] kind = "items" -> 500
    [] kind = "cards" -> 400

\* the position parameter of each fromTo of the entry timeline, ms
ChildOffset(kind, pIndex) ==
  CASE kind = "content" -> ContentOffset
    [] kind = "heading" -> 200
    [] kind = "words" -> 400 + pIndex * 150
    [] kind = "items" -> 500
    [] kind = "cards" -> 400

ChildDuration(kind) ==
  CASE kind = "content" -> ContentDuration
    [] kind = "heading" -> 800
    [] kind = "words" -> 600
    [] kind = "items" -> 600
    [] kind = "cards" -> 700

ChildStagger(kind) ==
  CASE kind = "content" -> 0
    [] kind = "heading" -> 30
    [] kind = "words" -> 40
    [] kind = "items" -> 80
    [] kind = "cards" -> 120

\* (variant: the stagger does not delay the end)
ChildFinishNoStagger(kind, pIndex, count) == ChildOffset(kind, pIndex) + ChildDuration(kind)

\* when the last of the count targets of a child finishes
ChildFinish(kind, pIndex, count) ==
  ChildEnd(ChildOffset(kind, pIndex), ChildDuration(kind), ChildStagger(kind), count)

\* one fromTo of the entry timeline over count targets
Child(kind, pIndex, count) ==
  [kind |-> kind, pIndex |-> pIndex, count |-> count,
   start |-> ChildOffset(kind, pIndex), end |-> ChildFinish(kind, pIndex, count)]

\* the children of a section's entry timeline, in the order they are added
EntryChildren(d) ==
  <<Child("content", 0, 1)>>
    \o (IF d.chars > 0 THEN <<Child("heading", 0, d.chars)>> ELSE <<>>)
    \o [q \in 1..Len(d.words) |-> Child("words", q - 1, d.words[q])]
    \o (IF d.items > 0 THEN <<Child("items", 0, d.items)>> ELSE <<>>)
    \o (IF d.cards > 0 THEN <<Child("cards", 0, d.cards)>> ELSE <<>>)

(***************************************************************************)
(* Text splitting                                                          *)
(*                                                                         *)
(* A text is a sequence of characters; an element is the sequence of its   *)
(* child nodes, each with a class ("text" for a text node) and a text.     *)
(***************************************************************************)
\* the longest text of a heading or a paragraph
MaxText == 3
\* NON_BREAKING_SPACE, which is also what &nbsp; parses to
NBSP == "nbsp"
Letters == {"a", "b", " "}
Texts == UNION {[1..n -> Letters] : n \in 0..MaxText}

\* an element as React renders it: one text node
TextElement(t) == <<[class |-> "text", text |-> t]>>

\* element.textContent: the texts of the child nodes, concatenated
RECURSIVE textContent(_)
textContent(el) ==
  IF el = <<>> THEN <<>> ELSE Head(el).text \o textContent(Tail(el))

\* String.prototype.split with a one-character separator: the pieces
\* between the separators, empty ones included
RECURSIVE SplitAt(_, _, _)
SplitAt(text, sep, piece) ==
  IF text = <<>> THEN <<piece>>
  ELSE IF Head(text) = sep THEN <<piece>> \o SplitAt(Tail(text), sep, <<>>)
  ELSE SplitAt(Tail(text), sep, Append(piece, Head(text)))

\* text.split(' ')
SplitWords(text) == SplitAt(text, " ", <<>>)

\* splitTextIntoWords: the element's children afterwards, a span per word
\* with a span holding &nbsp; between two words
splitTextIntoWords(el) ==
  LET words == SplitWords(textContent(el))
      n == Len(words)
  IN  [k \in 1..(2 * n - 1) |->
         IF k % 2 = 1 THEN [class |-> "split-word", text |-> words[(k + 1) \div 2]]
         ELSE [class |-> "space", text |-> <<NBSP>>]]

\* splitTextIntoChars: the element's children afterwards, a span per
\* character, a space replaced by NON_BREAKING_SPACE
splitTextIntoChars(el) ==
  LET text == textContent(el)
  IN  [k \in 1..Len(text) |->
         [class |-> "split-char",
          text |-> <<IF text[k] = " " THEN NBSP ELSE text[k]>>]]

\* the spans a split returned: the element's children of the class
SpansOf(el, class) == SelectSeq(el, LAMBDA node : node.class = class)

\* the heading and the paragraph of the page as the JSX has them
PageText == [heading |-> <<"a", " ", "b">>, paragraph |-> <<"a", " ", "b">>]

\* ease 'power3.out' and ease 'power2.in'
Power3Out(r) == ONE - Mul(Mul(ONE - r, ONE - r), ONE - r)
Power2In(q) == Mul(q, q)

\* a value e of the way from a to b
Interp(a, b, e) == a + ((b - a) * e) \div ONE

\* .section-content as the stylesheet leaves it
NaturalContent == [opacity |-> ONE, y |-> 0, scale |-> ONE, blur |-> 0]
\* the from-state and the to-state of the entry tween of .section-content
EntryFrom == [opacity |-> 0, y |-> 80 * 100, scale |-> (95 * ONE) \div 100, blur |-> 0]
EntryTo == [opacity |-> ONE, y |-> 0, scale |-> ONE, blur |-> 0]
\* the to-state of the exit tween: y -100, opacity 0, scale 0.92, blur(8px)
ExitTo == [opacity |-> 0, y |-> 0 - 100 * 100, scale |-> (92 * ONE) \div 100, blur |-> 8 * 100]

\* what the entry tween writes with the timeline's playhead at time t;
\* it has no filter and leaves the blur as it is
EntryRender(c, t) ==
  LET e == Power3Out((Min(t, ContentDuration) * ONE) \div ContentDuration)
  IN  [opacity |-> Interp(EntryFrom.opacity, EntryTo.opacity, e),
       y |-> Interp(EntryFrom.y, EntryTo.y, e),
       scale |-> Interp(EntryFrom.scale, EntryTo.scale, e),
       blur |-> c.blur]

\* the scroll range of the exit timeline, in grid units
ExitLen == Pct(60)

\* what the exit tween writes with the scrubbed playhead at h of ExitLen,
\* from the start values it recorded
ExitRender(from, h) ==
  LET e == Power2In((h * ONE) \div ExitLen)
  IN  [opacity |-> Interp(from.opacity, ExitTo.opacity, e),
       y |-> Interp(from.y, ExitTo.y, e),
       scale |-> Interp(from.scale, ExitTo.scale, e),
       blur |-> Interp(from.blur, ExitTo.blur, e)]

\* where the scroll offset s puts the exit timeline's playhead
ExitTarget(s) ==
  Clip(ExitStart(ProjectSection), ExitEnd(ProjectSection), s) - ExitStart(ProjectSection)

\* (variant: toggleActions 'play none none reverse')
toggleActionsReverse(cb) ==
  IF cb = "onEnter" THEN "play" ELSE IF cb = "onLeaveBack" THEN "reverse" ELSE "none"

\* toggleActions: 'play none none none' (onEnter, onLeave, onEnterBack, onLeaveBack)
toggleActions(cb) == IF cb = "onEnter" THEN "play" ELSE "none"

\* the toggle action of an update that fired the callbacks f: with two
\* callbacks (the whole range was passed) the second one's, unless it is none
ToggleAction(f) ==
  IF f = <<>> THEN "none"
  ELSE IF Len(f) = 2 /\ toggleActions(f[2]) # "none" THEN toggleActions(f[2])
  ELSE toggleActions(f[1])

\* the entry timeline after a toggle action
Toggle(tl, action) ==
  IF action = "play"
    THEN [tl EXCEPT !.reversed = FALSE, !.playing = tl.time < EntryDuration]
  ELSE IF action = "reverse"
    THEN [tl EXCEPT !.reversed = TRUE, !.playing = tl.time > 0]
  ELSE IF action = "restart"
    THEN [time |-> 0, reversed |-> FALSE, playing |-> TRUE]
  ELSE tl

\* a timeline as gsap.timeline({scrollTrigger}) creates it: paused at 0
NewEntryTl == [time |-> 0, playing |-> FALSE, reversed |-> FALSE]
\* the exit timeline: its scrubbed playhead, and the start values its
\* to-tween recorded when it first rendered (none before that)
NewExitTl == [head |-> 0, initted |-> FALSE, from |-> NaturalContent]

\* the entry timeline one tick later
EntryAdvance(tl) ==
  IF ~tl.playing THEN tl
  ELSE LET t == IF tl.reversed THEN Max(tl.time - TickMs, 0)
                ELSE Min(tl.time + TickMs, EntryDuration)
       IN  [tl EXCEPT !.time = t,
                      !.playing = IF tl.reversed THEN t > 0 ELSE t < EntryDuration]

\* the entry tween of .section-content renders in a tick that moves the
\* playhead within its span
EntryWrites(old, new) ==
  old.time # new.time /\ Min(old.time, new.time) < ContentOffset + ContentDuration

(***************************************************************************)
(* Cursor follower (CustomCursor)                                          *)
(* Coordinates and velocities are in px, fixed point with unit 1/ONE.      *)
(***************************************************************************)
\* frames the animation loop is followed for after a pointer move
MaxFrames == 75
\* pointer moves followed
MaxMoves == 1

\* springStiffness 0.15, dampening 0.75 and trailLag 0.08, in hundredths
springStiffness == 15
dampening == 75
trailLag == 8

\* a / m rounded to the nearest integer, as a floating-point product rounds
RoundDiv(a, m) == IF a >= 0 THEN (2 * a + m) \div (2 * m) ELSE -((2 * (-a) + m) \div (2 * m))

Abs(a) == IF a >= 0 THEN a ELSE -a

Px(x, y) == [x |-> x * ONE, y |-> y * ONE]

\* where the pointer may go
PointerTargets == {Px(0, 0), Px(500, 0), Px(300, 400)}

\* the window events CustomCursor listens to
CursorEvents == {"mousemove", "mouseover", "mousedown", "mouseup"}

\* (variant: the velocity is not dampened)
SpringVelocityUndamped(v, to, at) == v + RoundDiv((to - at) * springStiffness, 100)

\* velocity += (mousePos - cursorPos) * springStiffness; velocity *= dampening
SpringVelocity(v, to, at) ==
  RoundDiv((v + RoundDiv((to - at) * springStiffness, 100)) * dampening, 100)

\* (variant: the cursor moves by half the velocity)
CursorAdvanceHalfStep(at, v) == at + RoundDiv(v, 2)

\* cursorPos += velocity
CursorAdvance(at, v) == at + v

\* (variant: no lag, the trail sits on the cursor)
TrailStepNoLag(trail, cursor) == cursor

\* trailPos += (cursorPos - trailPos) * trailLag
TrailStep(trail, cursor) == trail + RoundDiv((cursor - trail) * trailLag, 100)

\* (variant: the callback is called from CustomCursor's animation frame
\* and the ticker is given nothing)
tickerAddNothing(fns) == fns

\* (variant: remove is given a new function, which the ticker does not hold)
tickerRemoveOtherFunction(fns) == fns

\* gsap.ticker.remove(rafFunctionRef.current), if there is one
tickerRemove(fns) == IF fns > 0 THEN fns - 1 ELSE fns

\* gsap.ticker.add(rafFunctionRef.current)
tickerAdd(fns) == fns + 1

\* the refs as useRef creates them
Origin == Px(0, 0)
NoLaunch == [rest |-> FALSE, x |-> 0, y |-> 0]

(***************************************************************************)
(* Responsive camera (ResponsiveCamera)                                    *)
(***************************************************************************)
\* canvas widths and heights, in units of 100 px
MaxWidth == 12
MaxHeight == 10

CanvasSizes == [width : 1..MaxWidth, height : 1..MaxHeight]

\* the canvas before the renderer has measured it
NoSize == [width |-> 0, height |-> 0]

\* the default camera of the Canvas: perspective, fov 75, at (0, 0, 5)
DefaultCamera == [fov |-> 75, position |-> <<0, 0, 5>>]

\* size.width / size.height
Aspect(size) == (size.width * ONE) \div size.height

\* (variant: no band for tablets and narrow desktops)
handleResizeTwoBands(camera, size) ==
  [camera EXCEPT !.fov = IF Aspect(size) < ONE THEN 75 ELSE 50]

\* handleResize: the field of view by the aspect ratio
handleResize(camera, size) ==
  [camera EXCEPT !.fov = IF Aspect(size) < ONE THEN 75
                         ELSE IF Aspect(size) < (15 * ONE) \div 10 THEN 65
                         ELSE 50]

\* the effect of ResponsiveCamera: the position on the first run only, then
\* handleResize
ResponsiveCameraEffect(camera, setup, size) ==
  handleResize(IF ~setup THEN [camera EXCEPT !.position = <<0, 0, 5>>] ELSE camera, size)

(***************************************************************************)
(* State                                                                   *)
(***************************************************************************)
VARIABLES
  mounted,              \* the App effect has run and is not cleaned up
  scrollY,              \* the scroll offset the triggers last saw
  scrollRef,            \* scrollRef.current
  target,               \* rotationY, rotationX, positionY, positionZ of the last onUpdate
  meshRef,              \* meshRef.current: 0 (empty) or a mesh instance
  mesh,                 \* rotation.y, rotation.x, position.y, position.z of each instance
  setters,              \* the instance the four quick setters write to; 0: not created
  built,                \* how many times the setters were created on each instance
  threw,                \* a handler raised an exception
  tweens,               \* tween objects the scroll update handler has created
  particleMode,         \* App's particleMode state
  pmCalls,              \* the setParticleMode calls of the last scroll update
  currentParticleMode,  \* LiquidMesh's currentParticleMode state (the lerp target)
  uParticleMode,        \* uParticleMode of the mesh material and of the particles material
  uScrollProgress,      \* uScrollProgress of the two materials
  entryTl,              \* the Projects section's entry timeline
  exitTl,               \* the Projects section's exit timeline
  content,              \* the style of the Projects section's .section-content
  listeners,            \* the window events CustomCursor's handlers are registered for
  rafPending,           \* CustomCursor's animate is requested for the next animation frame
  mousePos,             \* mousePos.current
  cursorPos,            \* cursorPos.current
  trailPos,             \* trailPos.current
  velocity,             \* velocity.current
  frames,               \* animation frames since the pointer last moved
  moves,                \* pointer moves so far
  launch,               \* the last move: did it find the cursor at rest, and how far away
  ctxLive,              \* the gsap.context's triggers, timelines and tweens exist
  lenis,                \* lenisRef.current: "none", "live" or "destroyed"
  tickerFns,            \* callbacks of App on gsap.ticker
  stale,                \* a per-frame callback ran against a destroyed target
  lagSmoothing,         \* the threshold of gsap.ticker.lagSmoothing, ms (0: off)
  size,                 \* the canvas size useThree gives
  camera,               \* the canvas camera: fov and position
  initialSetup,         \* initialSetup.current of ResponsiveCamera
  dom,                  \* what the section in the page holds
  jsx,                  \* the texts the JSX gives a heading and a paragraph
  headingEl,            \* the child nodes of the heading element
  paragraphEl,          \* the child nodes of the paragraph element
  scene,                \* the prop by which the build's Scene hands the scroll ref to LiquidMesh
  schedule              \* the children of the section's entry timeline

vars == <<mounted, scrollY, scrollRef, target, meshRef, mesh, setters, built, threw, tweens,
          particleMode, pmCalls, currentParticleMode, uParticleMode, uScrollProgress,
          entryTl, exitTl, content,
          listeners, rafPending, mousePos, cursorPos, trailPos, velocity,
          frames, moves, launch, ctxLive, lenis, tickerFns, stale,
          lagSmoothing, size, camera, initialSetup, dom, schedule, scene,
          jsx, headingEl, paragraphEl>>

appVars == <<mounted, scrollY, scrollRef, target, particleMode, pmCalls>>
meshVars == <<meshRef, mesh, setters, built>>
cursorRefs == <<mousePos, cursorPos, trailPos, velocity, frames, moves, launch>>
cursorVars == <<listeners, rafPending, cursorRefs>>
lifeVars == <<ctxLive, lenis, tickerFns, stale, lagSmoothing>>
cameraVars == <<size, camera, initialSetup>>
domVars == <<dom, schedule, scene, jsx, headingEl, paragraphEl>>
renderVars == <<currentParticleMode, uParticleMode, uScrollProgress>>
sectionVars == <<entryTl, exitTl, content>>

Meshes == 1..MaxMesh

InitApp ==
  /\ mounted = FALSE
  /\ scrollY = 0
  /\ scrollRef = 0
  /\ target = MapTransform(0)
  /\ meshRef = 0
  /\ mesh = [m \in Meshes |-> NewMesh]
  /\ setters = 0
  /\ built = [m \in Meshes |-> 0]
  /\ threw = FALSE
  /\ tweens = 0
  /\ particleMode = 0
  /\ pmCalls = <<>>
  /\ currentParticleMode = 0
  /\ uParticleMode = [material |-> 0, particles |-> 0]
  /\ uScrollProgress = 0
  /\ entryTl = NewEntryTl
  /\ exitTl = NewExitTl
  /\ content = NaturalContent
  /\ listeners = {}
  /\ rafPending = FALSE
  /\ mousePos = Origin
  /\ cursorPos = Origin
  /\ trailPos = Origin
  /\ velocity = Origin
  /\ frames = 0
  /\ moves = 0
  /\ launch = NoLaunch
  /\ ctxLive = FALSE
  /\ lenis = "none"
  /\ tickerFns = 0
  /\ stale = FALSE
  /\ lagSmoothing = 500
  /\ size = NoSize
  /\ camera = DefaultCamera
  /\ initialSetup = FALSE
  /\ schedule = <<>>

\* the page with the Projects section as the timelines take it, and the
\* Scene that renders <LiquidMesh scrollRef={scrollRef} ref={meshRef} />
Init ==
  /\ InitApp
  /\ dom = ProjectsDom
  /\ scene = "scrollRef"
  /\ jsx = PageText
  /\ headingEl = TextElement(jsx.heading)
  /\ paragraphEl = TextElement(jsx.paragraph)

\* the page with a section of any composition
InitEntry ==
  /\ InitApp
  /\ dom \in Compositions
  /\ scene = "scrollRef"
  /\ jsx = PageText
  /\ headingEl = TextElement(jsx.heading)
  /\ paragraphEl = TextElement(jsx.paragraph)

\* LiquidMesh on the mounted page, given a particleMode prop in [0,1] and
\* with its uniforms anywhere in [0,1]
InitLerp ==
  /\ mounted = TRUE
  /\ scrollY = 0
  /\ scrollRef = 0
  /\ target = MapTransform(0)
  /\ meshRef = 1
  /\ mesh = [m \in Meshes |-> NewMesh]
  /\ setters = 0
  /\ built = [m \in Meshes |-> 0]
  /\ threw = FALSE
  /\ tweens = 0
  /\ particleMode = 0
  /\ pmCalls = <<>>
  /\ currentParticleMode \in ModeSamples
  /\ \E x \in LerpSamples : uParticleMode = [material |-> x, particles |-> x]
  /\ uScrollProgress = 0
  /\ entryTl = NewEntryTl
  /\ exitTl = NewExitTl
  /\ content = EntryRender(NaturalContent, 0)
  /\ listeners = CursorEvents
  /\ rafPending = TRUE
  /\ mousePos = Origin
  /\ cursorPos = Origin
  /\ trailPos = Origin
  /\ velocity = Origin
  /\ frames = 0
  /\ moves = 0
  /\ launch = NoLaunch
  /\ ctxLive = TRUE
  /\ lenis = "live"
  /\ tickerFns = 1
  /\ stale = FALSE
  /\ lagSmoothing = 0
  /\ size = NoSize
  /\ camera = DefaultCamera
  /\ initialSetup = FALSE
  /\ dom = ProjectsDom
  /\ schedule = EntryChildren(ProjectsDom)
  /\ scene = "scrollRef"
  /\ jsx = PageText
  /\ headingEl = splitTextIntoChars(TextElement(jsx.heading))
  /\ paragraphEl = splitTextIntoWords(TextElement(jsx.paragraph))

\* the page built with either Scene the repository holds
InitScene ==
  /\ InitApp
  /\ dom = ProjectsDom
  /\ scene \in Scenes
  /\ jsx = PageText
  /\ headingEl = TextElement(jsx.heading)
  /\ paragraphEl = TextElement(jsx.paragraph)

\* the page with a heading and a paragraph of any text
InitSplit ==
  /\ InitApp
  /\ dom = ProjectsDom
  /\ scene = "scrollRef"
  /\ jsx \in [heading : Texts, paragraph : Texts]
  /\ headingEl = TextElement(jsx.heading)
  /\ paragraphEl = TextElement(jsx.paragraph)

(***************************************************************************)
(* Direct property setters                                                 *)
(***************************************************************************)
\* initQuickSetters: binds the setters to meshRef.current if there is one
initQuickSetters(ref, bound) == IF ref # 0 THEN ref ELSE bound

\* (variant: the setters are called without the existence guards)
ApplyTransformUnguarded(ref, bound) ==
  LET b == IF bound = 0 THEN initQuickSetters(ref, bound) ELSE bound
  IN  [written |-> b, setters |-> b, threw |-> b = 0, tweens |-> 0,
       built |-> IF bound = 0 /\ ref # 0 THEN 1 ELSE 0]

\* (variant: the earlier App's handler, which starts a 0.1 s tween toward
\* the values on every update and writes nothing itself)
ApplyTransformTween(ref, bound) ==
  [written |-> 0, setters |-> bound, threw |-> FALSE, tweens |-> IF ref # 0 THEN 1 ELSE 0,
   built |-> 0]

\* (variant: initQuickSetters is called on every update, without the test
\* for setters that exist)
ApplyTransformRebuild(ref, bound) ==
  IF ref # 0
  THEN LET b == initQuickSetters(ref, bound)
       IN  [written |-> b, setters |-> b, threw |-> FALSE, tweens |-> 0, built |-> 1]
  ELSE [written |-> 0, setters |-> bound, threw |-> FALSE, tweens |-> 0, built |-> 0]

\* The tail of onUpdate: with a mesh in meshRef, create the setters when
\* there are none and call them.  Yields the instance written to (0: none),
\* the setters afterwards, whether a call of an undefined setter threw, the
\* number of tween objects created (none: the setters write directly) and
\* the number of times initQuickSetters created the four setters.
ApplyTransform(ref, bound) ==
  IF ref # 0
  THEN LET b == IF bound = 0 THEN initQuickSetters(ref, bound) ELSE bound
       IN  [written |-> b, setters |-> b, threw |-> FALSE, tweens |-> 0,
            built |-> IF bound = 0 THEN 1 ELSE 0]
  ELSE [written |-> 0, setters |-> bound, threw |-> FALSE, tweens |-> 0, built |-> 0]

(***************************************************************************)
(* Actions                                                                 *)
(***************************************************************************)
\* The App effect runs: triggers and timelines are created at scroll offset 0.
\* No trigger of the Projects section is past its start there.  The entry
\* tween, a fromTo, puts .section-content into its from-state at once.
AppMount ==
  /\ ~mounted
  /\ mounted' = TRUE
  /\ ctxLive' = TRUE
  /\ lenis' = "live"
  /\ tickerFns' = tickerAdd(tickerFns)
  /\ lagSmoothing' = 0
  /\ schedule' = EntryChildren(dom)
  /\ headingEl' = splitTextIntoChars(headingEl)
  /\ paragraphEl' = splitTextIntoWords(paragraphEl)
  /\ UNCHANGED <<stale, cameraVars, dom, scene, jsx>>
  /\ entryTl' = NewEntryTl
  /\ exitTl' = NewExitTl
  /\ content' = EntryRender(content, 0)
  /\ listeners' = CursorEvents
  /\ rafPending' = TRUE
  /\ UNCHANGED <<scrollY, scrollRef, target, particleMode, pmCalls>>
  /\ UNCHANGED <<meshVars, renderVars, threw, tweens, cursorRefs>>

\* The App unmounts: the effect's cleanup runs (ctx.revert() kills the
\* timelines and reverts the styles they set), the component's state, refs
\* and closures are dropped, and the canvas with its mesh goes with it.
AppUnmount ==
  /\ mounted
  /\ mounted' = FALSE
  /\ ctxLive' = FALSE
  /\ lenis' = "none"
  /\ tickerFns' = tickerRemove(tickerFns)
  /\ size' = NoSize
  /\ camera' = DefaultCamera
  /\ initialSetup' = FALSE
  /\ schedule' = <<>>
  /\ headingEl' = TextElement(jsx.heading)
  /\ paragraphEl' = TextElement(jsx.paragraph)
  /\ UNCHANGED <<stale, lagSmoothing, tweens, dom, scene, jsx>>
  /\ scrollY' = 0
  /\ scrollRef' = 0
  /\ target' = MapTransform(0)
  /\ meshRef' = 0
  /\ mesh' = [m \in Meshes |-> NewMesh]
  /\ setters' = 0
  /\ built' = [m \in Meshes |-> 0]
  /\ particleMode' = 0
  /\ pmCalls' = <<>>
  /\ currentParticleMode' = 0
  /\ uParticleMode' = [material |-> 0, particles |-> 0]
  /\ uScrollProgress' = 0
  /\ entryTl' = NewEntryTl
  /\ exitTl' = NewExitTl
  /\ content' = NaturalContent
  /\ listeners' = {}
  /\ rafPending' = FALSE
  /\ mousePos' = Origin
  /\ cursorPos' = Origin
  /\ trailPos' = Origin
  /\ velocity' = Origin
  /\ frames' = 0
  /\ moves' = 0
  /\ launch' = NoLaunch
  /\ UNCHANGED threw

\* The renderer mounts LiquidMesh and puts a new mesh instance into meshRef.
\* An instance the setters still hold is not handed out again.
MeshAttach(m) ==
  /\ mounted
  /\ meshRef = 0
  /\ m # setters
  /\ meshRef' = m
  /\ mesh' = [mesh EXCEPT ![m] = NewMesh]
  /\ currentParticleMode' = LiquidMeshParticleMode(particleMode)
  /\ uParticleMode' = [material |-> 0, particles |-> 0]
  /\ uScrollProgress' = 0
  /\ built' = [built EXCEPT ![m] = 0]
  /\ UNCHANGED <<appVars, setters, threw, tweens, sectionVars, cursorVars, lifeVars, cameraVars, domVars>>

\* Hot replacement of LiquidMesh (development server): the component is
\* mounted anew and meshRef gets another mesh instance while the App effect,
\* with its closures, stays as it is.  The old instance lives on only while
\* the setters hold it.
MeshReplace(m) ==
  /\ mounted
  /\ meshRef # 0
  /\ m # meshRef
  /\ m # setters
  /\ meshRef' = m
  /\ mesh' = [k \in Meshes |-> IF k = m \/ (k = meshRef /\ k # setters)
                                THEN NewMesh ELSE mesh[k]]
  /\ currentParticleMode' = LiquidMeshParticleMode(particleMode)
  /\ uParticleMode' = [material |-> 0, particles |-> 0]
  /\ uScrollProgress' = 0
  /\ built' = [built EXCEPT ![m] = 0]
  /\ UNCHANGED <<appVars, setters, threw, tweens, sectionVars, cursorVars, lifeVars, cameraVars, domVars>>

\* ScrollTrigger.update at a new scroll offset s: the section triggers fire
\* their callbacks and toggle the entry timeline, React commits the batched
\* particleMode, and the body trigger's onUpdate maps the progress to the
\* mesh transform.  The exit timeline's playhead follows on later ticks.
ScrollTo(s) ==
  /\ ctxLive
  /\ s # scrollY
  /\ LET calls == SetParticleModeCalls(scrollY, s)
         progress == Progress(s)
         t == MapTransform(progress)
         a == ApplyTransform(meshRef, setters)
     IN  /\ scrollY' = s
         /\ pmCalls' = calls
         /\ particleMode' = BatchedState(particleMode, calls)
         /\ currentParticleMode' =
              IF meshRef # 0 THEN LiquidMeshParticleMode(particleMode')
              ELSE currentParticleMode
         /\ scrollRef' = progress
         /\ target' = t
         /\ setters' = a.setters
         /\ built' = IF a.built > 0 THEN [built EXCEPT ![a.setters] = @ + a.built] ELSE built
         /\ mesh' = IF a.written # 0 THEN [mesh EXCEPT ![a.written] = t] ELSE mesh
         /\ threw' = (threw \/ a.threw)
         /\ tweens' = tweens + a.tweens
         /\ entryTl' = Toggle(entryTl, ToggleAction(EntryFires(ProjectSection, scrollY, s)))
  /\ UNCHANGED <<mounted, meshRef, uParticleMode, uScrollProgress, exitTl, content, cursorVars, lifeVars, cameraVars, domVars>>

\* One render frame of LiquidMesh (useFrame): both uParticleMode uniforms
\* move toward currentParticleMode.
Frame ==
  /\ mounted
  /\ meshRef # 0
  /\ LET f == useFrame(LiquidMeshScrollRef(scene), scrollRef, uScrollProgress,
                       uParticleMode, currentParticleMode)
     IN  /\ uScrollProgress' = f.uScrollProgress
         /\ uParticleMode' = f.uParticleMode
         /\ threw' = (threw \/ f.threw)
  /\ UNCHANGED <<appVars, meshVars, currentParticleMode, tweens, sectionVars, cursorVars, lifeVars, cameraVars, domVars>>

\* One tick of the animation ticker with a timeline to advance.  The entry
\* timeline, if playing, moves by TickMs and its tween writes the style.
\* Then the exit timeline's playhead, smoothed by scrub: 1.5, moves some way
\* toward the place the scroll offset gives it; its to-tween records its
\* start values from the style when it first renders, and writes the style.
Tick(h) ==
  /\ ctxLive
  /\ entryTl.playing \/ exitTl.head # ExitTarget(scrollY)
  /\ IF exitTl.head = ExitTarget(scrollY) THEN h = exitTl.head
     ELSE /\ h # exitTl.head
          /\ h \in Min(exitTl.head, ExitTarget(scrollY))..Max(exitTl.head, ExitTarget(scrollY))
  /\ LET e == EntryAdvance(entryTl)
         c1 == IF EntryWrites(entryTl, e) THEN EntryRender(content, e.time) ELSE content
         from == IF exitTl.initted THEN exitTl.from ELSE c1
     IN  /\ entryTl' = e
         /\ exitTl' = IF h = exitTl.head THEN exitTl
                       ELSE [head |-> h, initted |-> TRUE, from |-> from]
         /\ content' = IF h = exitTl.head THEN c1 ELSE ExitRender(from, h)
  /\ UNCHANGED <<appVars, meshVars, renderVars, threw, tweens, cursorVars, lifeVars, cameraVars, domVars>>

\* A mousemove event: handleMouseMove stores the pointer's place.
MouseMove(p) ==
  /\ "mousemove" \in listeners
  /\ moves < MaxMoves
  /\ p # mousePos
  /\ mousePos' = p
  /\ frames' = 0
  /\ moves' = moves + 1
  /\ launch' = [rest |-> velocity = Origin /\ cursorPos = mousePos,
                x |-> p.x - cursorPos.x, y |-> p.y - cursorPos.y]
  /\ UNCHANGED <<appVars, meshVars, renderVars, threw, tweens, sectionVars, lifeVars, cameraVars, domVars>>
  /\ UNCHANGED <<listeners, rafPending, cursorPos, trailPos, velocity>>

\* One animation frame of CustomCursor: animate integrates the spring, moves
\* the trail toward the new cursor position and requests the next frame.
CursorFrame ==
  /\ rafPending
  /\ frames < MaxFrames
  /\ LET v == [x |-> SpringVelocity(velocity.x, mousePos.x, cursorPos.x),
               y |-> SpringVelocity(velocity.y, mousePos.y, cursorPos.y)]
         c == [x |-> CursorAdvance(cursorPos.x, v.x), y |-> CursorAdvance(cursorPos.y, v.y)]
     IN  /\ velocity' = v
         /\ cursorPos' = c
         /\ trailPos' = [x |-> TrailStep(trailPos.x, c.x), y |-> TrailStep(trailPos.y, c.y)]
  /\ frames' = IF moves > 0 THEN frames + 1 ELSE frames
  /\ rafPending' = TRUE
  /\ UNCHANGED <<appVars, meshVars, renderVars, threw, tweens, sectionVars, lifeVars, cameraVars, domVars>>
  /\ UNCHANGED <<listeners, mousePos, moves, launch>>

\* A tick of gsap.ticker calls App's callback, which calls the raf method of
\* the Lenis instance in lenisRef.
LenisRaf ==
  /\ tickerFns > 0
  /\ stale' = (stale \/ lenis # "live")
  /\ UNCHANGED <<appVars, meshVars, renderVars, threw, tweens, sectionVars, cursorVars>>
  /\ UNCHANGED <<ctxLive, lenis, tickerFns, lagSmoothing, cameraVars, domVars>>

\* The Canvas has measured itself or changed its size: useThree gives a new
\* size and the effect of ResponsiveCamera runs.
Resize(sz) ==
  /\ mounted
  /\ sz # size
  /\ size' = sz
  /\ camera' = ResponsiveCameraEffect(camera, initialSetup, sz)
  /\ initialSetup' = TRUE
  /\ UNCHANGED <<appVars, meshVars, renderVars, threw, tweens, sectionVars>>
  /\ UNCHANGED <<cursorVars, lifeVars, domVars>>

\* The scroll and mesh pipeline; the animation ticker and the render loop
\* are not stepped, so that timelines and uniforms keep what they have.
Next ==
  \/ AppMount
  \/ AppUnmount
  \/ \E m \in Meshes : MeshAttach(m)
  \/ \E s \in ScrollPos : ScrollTo(s)

Spec == Init /\ [][Next]_vars

\* the same pipeline with the render frames of the canvas
NextRender ==
  \/ Next
  \/ Frame

SpecRender == Init /\ [][NextRender]_vars

\* The section timelines: scrolling and ticks of the animation ticker, with
\* the canvas not yet showing a mesh.
NextSection ==
  \/ AppMount
  \/ AppUnmount
  \/ \E s \in ScrollPos : ScrollTo(s)
  \/ \E h \in 0..ExitLen : Tick(h)

SpecSection == Init /\ [][NextSection]_vars

\* the same with the animation ticker running: gsap.ticker calls its
\* callbacks on every animation frame, so a tick that is due is taken
SpecSectionFair == SpecSection /\ WF_vars(\E h \in 0..ExitLen : Tick(h))

\* the cursor follower: pointer moves and animation frames
NextCursor ==
  \/ AppMount
  \/ AppUnmount
  \/ \E p \in PointerTargets : MouseMove(p)
  \/ CursorFrame

SpecCursor == Init /\ [][NextCursor]_vars

\* the canvas camera under changes of the canvas size
NextCamera ==
  \/ AppMount
  \/ AppUnmount
  \/ \E sz \in CanvasSizes : Resize(sz)

SpecCamera == Init /\ [][NextCamera]_vars

\* the entry timeline built at mount for a section of any composition
NextEntry ==
  \/ AppMount
  \/ AppUnmount

SpecEntry == InitEntry /\ [][NextEntry]_vars

\* mounting and unmounting with everything a mount starts running: scroll
\* triggers, timelines, the Lenis ticker callback and the cursor's loop
NextLife ==
  \/ AppMount
  \/ AppUnmount
  \/ \E s \in ScrollPos : ScrollTo(s)
  \/ \E h \in 0..ExitLen : Tick(h)
  \/ LenisRaf
  \/ CursorFrame

SpecLife == Init /\ [][NextLife]_vars

\* the scroll, mesh and renderer pipeline together with the callbacks of the
\* animation ticker and of CustomCursor's animation frames
NextLoops ==
  \/ NextRender
  \/ LenisRaf
  \/ CursorFrame

SpecLoops == Init /\ [][NextLoops]_vars

\* the render frames of LiquidMesh alone, for any prop and uniform values;
\* the canvas calls useFrame on every frame it renders
NextLerp == Frame

SpecLerp == InitLerp /\ [][NextLerp]_vars /\ WF_vars(Frame)

\* the same pipeline for the page built with either Scene
SpecScene == InitScene /\ [][NextRender]_vars

\* the page under a development server that replaces LiquidMesh in place
NextHot ==
  \/ Next
  \/ \E m \in Meshes : MeshReplace(m)

SpecHot == Init /\ [][NextHot]_vars

(***************************************************************************)
(* Properties                                                              *)
(***************************************************************************)
\* a scroll update is a step that moves the scroll offset of the mounted App
ScrollUpdateStep == mounted /\ mounted' /\ scrollY' # scrollY

\* two fixed-point numbers agree up to the resolution of the representation
Near(a, b) == a - b \in -1..1

\* C1: every scroll update, with progress p in [0,1], computes
\* rotationY = 2 pi p, rotationX = 0.3 sin(pi p), positionY = 0.5 sin(2 pi p)
\* and positionZ = 2 p; positionY is 0 at p = 0 and at p = 1.
C1_MapperFormulas ==
  /\ scrollRef \in 0..ONE
  /\ Near(target.ry, (TWO_PI * scrollRef) \div ONE)
  /\ Near(target.rx, (3 * Sin((PI_FX * scrollRef) \div ONE)) \div 10)
  /\ Near(target.py, Sin((TWO_PI * scrollRef) \div ONE) \div 2)
  /\ target.pz = 2 * scrollRef
  /\ scrollRef = ONE => target.ry = TWO_PI
  /\ scrollRef \in {0, ONE} => target.py = 0

C1_Witness ==
  /\ mounted
  /\ scrollY = MaxScroll
  /\ scrollRef = ONE
  /\ target.py = 0
  /\ target.ry = TWO_PI

\* C2: while the mesh is mounted, a scroll update that raises the progress
\* does not lower the mesh's rotation.y, and an update to progress 1 leaves
\* rotation.y at 2 pi.
C2_RotationMonotone ==
  [][(ScrollUpdateStep /\ meshRef # 0 /\ scrollRef' >= scrollRef)
       => /\ mesh'[meshRef].ry >= mesh[meshRef].ry
          /\ (scrollRef' = ONE => mesh'[meshRef].ry = TWO_PI)]_vars

C2_Witness ==
  /\ meshRef # 0
  /\ scrollRef = ONE
  /\ mesh[meshRef].ry = TWO_PI

\* C4: a scroll update that arrives while meshRef is empty (the setters not
\* yet created) throws nothing and writes no rotation or position field.
C4_UpdateBeforeInit ==
  [][(ScrollUpdateStep /\ meshRef = 0)
       => /\ ~threw'
          /\ mesh' = mesh
          /\ setters' = 0]_vars

C4_Witness ==
  /\ mounted
  /\ meshRef = 0
  /\ setters = 0
  /\ scrollRef > 0
  /\ ~threw

Range(q) == {q[k] : k \in 1..Len(q)}

\* C3: after any enter/leave events and render frames, Particle Mode is
\* within [0,1]: App's state, the lerp target and both uParticleMode
\* uniforms; and a frame's lerp step from a value in [0,1] toward either
\* target stays in [0,1], on the target's side of the value (no overshoot).
C3_ParticleModeInRange ==
  /\ particleMode \in 0..ONE
  /\ currentParticleMode \in 0..ONE
  /\ uParticleMode.material \in 0..ONE
  /\ uParticleMode.particles \in 0..ONE
  /\ \A x \in LerpSamples, y \in {0, ONE} :
       Lerp(x, y, ParticleLerp) \in Min(x, y)..Max(x, y)

C3_Witness ==
  /\ meshRef # 0
  /\ particleMode = ONE
  /\ pmCalls = <<ONE>>
  /\ scrollY > EntryStart(ProjectSection)

\* C5: when the Projects section's entry trigger fires onEnter (scrolling
\* down) or onEnterBack (scrolling back up), setParticleMode(1) is called,
\* and particleMode is 1 after the update unless the same update also fires
\* a leave callback of the section's exit trigger.
C5_EnterBothDirections ==
  [][ScrollUpdateStep =>
       LET f == Range(EntryFires(ProjectSection, scrollY, scrollY'))
           x == Range(ExitFires(ProjectSection, scrollY, scrollY'))
       IN  (f \cap {"onEnter", "onEnterBack"} # {})
             => /\ ONE \in Range(pmCalls')
                /\ (x \cap {"onLeave", "onLeaveBack"} = {}) => particleMode' = ONE]_vars

\* re-entered scrolling back up from below the section: the exit trigger's
\* onLeaveBack, then the entry trigger's onEnterBack
C5_Witness ==
  /\ pmCalls = <<0, ONE>>
  /\ particleMode = ONE
  /\ scrollY < EntryEnd(ProjectSection)

\* C6: with the scroll offset out of the Projects section's range, at or
\* past its exit end or at or above its entry start, particleMode is 0.
C6_LeftMeansOff ==
  (mounted /\ (scrollY >= ExitEnd(ProjectSection) \/ scrollY <= EntryStart(ProjectSection)))
    => particleMode = 0

\* C7: with particleMode set to 1 by the Projects section's enter callback
\* and the mesh component mounted, the renderer's lerp target is 1.
C7_TargetFollowsApp ==
  (meshRef # 0 /\ particleMode = ONE) => currentParticleMode = ONE

\* C8: while the exit sequence is scrubbed from its start to its end, the
\* content's opacity goes from 1 down to 0 and its blur from 0 up to 8px,
\* neither ever turning back: a tick that advances the exit playhead starts
\* from opacity 1 and no blur when the playhead is at the start, does not
\* raise the opacity or lower the blur, and leaves opacity 0 and blur 8px
\* when the playhead arrives at the end.
C8_ExitFade ==
  [][(mounted /\ mounted' /\ exitTl'.head > exitTl.head)
       => /\ exitTl.head = 0 => (content.opacity = ONE /\ content.blur = 0)
          /\ content'.opacity <= content.opacity
          /\ content'.blur >= content.blur
          /\ exitTl'.head = ExitLen
               => (content'.opacity = 0 /\ content'.blur = 8 * 100)]_vars

\* C9: after the entry sequence has played, crossing the entry start
\* threshold forward again (onEnter, after scrolling back above it) plays
\* the sequence again from its start.
C9_EntryReplays ==
  [][(ScrollUpdateStep /\ entryTl.time = EntryDuration
        /\ "onEnter" \in Range(EntryFires(ProjectSection, scrollY, scrollY')))
       => (entryTl'.playing /\ entryTl'.time = 0)]_vars

\* C10: scrolling back up across the entry start threshold (onLeaveBack)
\* after the entry animation has run sets it playing in reverse.
C10_EntryReverses ==
  [][(ScrollUpdateStep /\ entryTl.time > 0
        /\ "onLeaveBack" \in Range(EntryFires(ProjectSection, scrollY, scrollY')))
       => (entryTl'.playing /\ entryTl'.reversed)]_vars

(***************************************************************************)
(* Cursor follower properties                                              *)
(***************************************************************************)
\* 0.01 px
Hundredth == ONE \div 100

\* the points a and b are less than r apart
Close(a, b, r) ==
  LET dx == Abs(a.x - b.x)
      dy == Abs(a.y - b.y)
  IN  dx < r /\ dy < r /\ dx * dx + dy * dy < r * r

\* the square of the magnitude of v, in units of 0.01 px
Speed2(v) ==
  (Abs(v.x) \div Hundredth) * (Abs(v.x) \div Hundredth)
    + (Abs(v.y) \div Hundredth) * (Abs(v.y) \div Hundredth)

\* the pointer's last move found the cursor at rest, 500 px away
Launched500 ==
  /\ launch.rest
  /\ (launch.x \div ONE) * (launch.x \div ONE)
       + (launch.y \div ONE) * (launch.y \div ONE) = 500 * 500

\* an animation frame with the pointer stopped after a move and the cursor
\* not yet settled on it
FrameAfterStop ==
  /\ frames' = frames + 1
  /\ moves > 0
  /\ velocity # Origin \/ cursorPos # mousePos

\* C11 as stated: once the pointer has stopped, every animation frame
\* lowers the magnitude of the spring velocity.
C11_SpeedStrictlyDecreases ==
  [][FrameAfterStop => Speed2(velocity') < Speed2(velocity)]_vars

\* C11, amended: with the pointer stopped 500 px from the cursor at rest,
\* the velocity dies out without being monotone: from the 65th frame on its
\* magnitude is below 0.01 px per frame.
C11_SpeedDiesOut ==
  (Launched500 /\ frames >= 65) => Close(velocity, Origin, Hundredth)

\* the speed has risen from rest to more than 100 px per frame, and later
\* it is under 0.01 px per frame while the cursor still moves
C11_Witness ==
  /\ Launched500
  /\ frames = 65
  /\ velocity # Origin
  /\ Close(velocity, Origin, Hundredth)

\* C12 as stated: from rest 500 px away from a stationary pointer, the
\* distance to the pointer is below 0.01 px from the 40th frame on.
C12_Within40Frames ==
  (Launched500 /\ frames >= 40) => Close(cursorPos, mousePos, Hundredth)

\* C12, amended: from rest 500 px away from a stationary pointer, the
\* distance to the pointer is below 0.01 px from the 71st frame on.
C12_Within71Frames ==
  (Launched500 /\ frames >= 71) => Close(cursorPos, mousePos, Hundredth)

C12_Witness ==
  /\ Launched500
  /\ frames = 71
  /\ cursorPos # mousePos
  /\ Close(cursorPos, mousePos, Hundredth)

(***************************************************************************)
(* Unmount                                                                 *)
(***************************************************************************)
\* C13: no per-frame callback has run against a destroyed target, and with
\* the App unmounted nothing of the mount is left running: no App callback
\* on the ticker, no live trigger or playing timeline, no requested cursor
\* frame and no window listener of the cursor.
C13_NothingLeftRunning ==
  /\ ~stale
  /\ ~mounted =>
       /\ tickerFns = 0
       /\ lenis # "live"
       /\ ~ctxLive
       /\ ~entryTl.playing
       /\ ~rafPending
       /\ listeners = {}

\* unmounted after a mount (the mount turned lag smoothing off)
C13_Witness ==
  /\ ~mounted
  /\ lagSmoothing = 0
  /\ tickerFns = 0
  /\ ~rafPending

(***************************************************************************)
(* Direct writes                                                           *)
(***************************************************************************)
\* C14: right after a scroll update with the mesh mounted, the mesh's
\* rotation.y, rotation.x, position.y and position.z are the mapper's
\* outputs for that update's progress; the update creates no tween object
\* and leaves setters that exist as they are.
C14_DirectWrites ==
  [][(ScrollUpdateStep /\ meshRef # 0)
       => /\ mesh'[meshRef] = MapTransform(Progress(scrollY'))
          /\ tweens' = tweens
          /\ setters # 0 => setters' = setters]_vars

\* a second update has gone through the setters the first one created
C14_Witness ==
  /\ meshRef # 0
  /\ setters = meshRef
  /\ scrollRef \in 1..(ONE - 1)
  /\ mesh[meshRef] = MapTransform(scrollRef)
  /\ mesh[meshRef].rx > 0
  /\ tweens = 0

(***************************************************************************)
(* Responsive camera properties                                            *)
(***************************************************************************)
\* C15: after every run of the camera effect the field of view is 75 for
\* an aspect ratio under 1, 65 from 1 to under 1.5 and 50 from 1.5 on; the
\* first run puts the camera at (0, 0, 5) and a later size change leaves
\* the position as it is.
C15_FovByAspect ==
  /\ [](initialSetup =>
         /\ size.width < size.height => camera.fov = 75
         /\ (size.width >= size.height /\ 2 * size.width < 3 * size.height)
              => camera.fov = 65
         /\ 2 * size.width >= 3 * size.height => camera.fov = 50
         /\ camera.position = <<0, 0, 5>>)
  /\ [][(initialSetup /\ initialSetup' /\ size' # size)
          => camera'.position = camera.position]_vars

\* a size change has taken the canvas to the aspect ratio 1.5 exactly
C15_Witness ==
  /\ initialSetup
  /\ 2 * size.width = 3 * size.height
  /\ camera.fov = 50

(***************************************************************************)
(* Entry sequence: offsets and completion                                  *)
(***************************************************************************)
\* the place of a sub-animation in the order content container, heading
\* characters, cards, paragraph words, list items
Rank(kind) ==
  CASE kind = "content" -> 1
    [] kind = "heading" -> 2
    [] kind = "cards" -> 3
    [] kind = "words" -> 4
    [] kind = "items" -> 5

Scheduled == Range(schedule)

\* C16 as stated: in every section the start offsets follow the order
\* content container, heading characters, cards, paragraph words, list
\* items, however many paragraphs there are.
C16_StartsInOrder ==
  \A a \in Scheduled, b \in Scheduled :
    Rank(a.kind) < Rank(b.kind) => a.start <= b.start

\* C16, amended: every sub-animation starts at a fixed offset from the
\* sequence start, whatever the counts: the content container at 0, the
\* heading characters at 0.2 s, the cards at 0.4 s, the words of the
\* paragraph with index p at 0.4 s + p * 0.15 s and the list items at 0.5 s.
\* So the order content, heading, cards, words, list items holds for the
\* first paragraph only; the words of every later paragraph start after
\* the list items.
C16_FixedOffsets ==
  \A a \in Scheduled :
    /\ a.kind = "content" => a.start = 0
    /\ a.kind = "heading" => a.start = 200
    /\ a.kind = "cards" => a.start = 400
    /\ a.kind = "words" => a.start = 400 + a.pIndex * 150
    /\ a.kind = "items" => a.start = 500
    /\ \A b \in Scheduled :
         (Rank(a.kind) < Rank(b.kind) /\ ~(a.kind = "words" /\ a.pIndex > 0))
           => a.start <= b.start
    /\ \A b \in Scheduled :
         (a.kind = "words" /\ a.pIndex > 0 /\ b.kind = "items") => a.start > b.start

\* a section with two paragraphs and list items
C16_Witness ==
  /\ \E a \in Scheduled : a.kind = "words" /\ a.pIndex = 1
  /\ \E a \in Scheduled : a.kind = "items"
  /\ \E a \in Scheduled : a.kind = "cards"

\* C17 as stated: for all counts the sub-animations complete in the order
\* content container, heading characters, cards, paragraph words, list
\* items.
C17_CompleteInOrder ==
  \A a \in Scheduled, b \in Scheduled :
    Rank(a.kind) < Rank(b.kind) => a.end <= b.end

\* C17, amended: a sub-animation over count targets completes at offset +
\* duration + stagger * (count - 1): the content container at 1 s, the
\* heading at 1 s + 0.03 s per further character, the cards at 1.1 s +
\* 0.12 s per further card, the words of paragraph p at 1 s + p * 0.15 s +
\* 0.04 s per further word, the list items at 1.1 s + 0.08 s per further
\* item.  The content container completes no later than any other; the
\* order of the others depends on the counts.
C17_CompletionTimes ==
  \A a \in Scheduled :
    /\ a.kind = "content" => a.end = 1000
    /\ a.kind = "heading" => a.end = 1000 + 30 * (a.count - 1)
    /\ a.kind = "cards" => a.end = 1100 + 120 * (a.count - 1)
    /\ a.kind = "words" => a.end = 1000 + 150 * a.pIndex + 40 * (a.count - 1)
    /\ a.kind = "items" => a.end = 1100 + 80 * (a.count - 1)
    /\ \A b \in Scheduled : b.kind = "content" => b.end <= a.end

\* a heading of five characters completes after a single card, and the
\* card after the single word of a paragraph
C17_Witness ==
  /\ \E a \in Scheduled : a.kind = "heading" /\ a.count = 5 /\ a.end = 1120
  /\ \E a \in Scheduled : a.kind = "cards" /\ a.count = 1 /\ a.end = 1100
  /\ \E a \in Scheduled : a.kind = "words" /\ a.count = 1 /\ a.end = 1000


\* C18: the exit sequence's output is a function of the scroll position
\* alone: with the scroll offset past the exit start, whatever the scrolling
\* and the time that led there, the content's translation, opacity, scale
\* and blur are the exit interpolation at that offset from the natural
\* state, and so the end values once the bottom edge is at the viewport top.
C18_ExitByPosition ==
  (ctxLive /\ scrollY > ExitStart(ProjectSection))
    => content = ExitRender(NaturalContent, ExitTarget(scrollY))


C20_SettersBuiltOnce ==
  /\ [](/\ \A m \in Meshes : built[m] <= 1
        /\ setters # 0 => built[setters] = 1)
  /\ [][ScrollUpdateStep
          => /\ \A m \in Meshes :
                  mesh'[m] # mesh[m] => (setters' = m /\ built'[m] = 1)
             /\ (setters # 0 /\ setters = meshRef)
                  => (built' = built /\ setters' = setters)]_vars

\* a scroll update has created the setters on the current mesh and written
\* the transform through them; the other instance has none
C20_Witness ==
  /\ meshRef # 0
  /\ setters = meshRef
  /\ built[meshRef] = 1
  /\ \A m \in Meshes \ {meshRef} : built[m] = 0
  /\ mesh[meshRef] = MapTransform(scrollRef)
  /\ mesh[meshRef].pz > 0

\* C21: after the mesh instance in meshRef has been replaced by a new one,
\* scroll updates write to the current instance and to no other: a scroll
\* update with a mesh in meshRef leaves that instance with the mapper's
\* values for the new progress and every other instance as it was.
C21_WritesCurrentMesh ==
  [][(ScrollUpdateStep /\ meshRef # 0)
       => /\ mesh'[meshRef] = MapTransform(scrollRef')
          /\ \A m \in Meshes \ {meshRef} : mesh'[m] = mesh[m]]_vars

\* C22 as stated: the trail follows the raw pointer on its own: an animation
\* frame moves the trail by its lag toward the pointer position, whatever
\* the glyph follower does.
C22_TrailFollowsPointer ==
  [][(frames' = frames + 1)
       => /\ trailPos'.x = trailPos.x + RoundDiv((mousePos.x - trailPos.x) * 8, 100)
          /\ trailPos'.y = trailPos.y + RoundDiv((mousePos.y - trailPos.y) * 8, 100)]_vars

\* C22: the trail follows the glyph follower: an animation frame moves the
\* trail 8% of the way toward the position the glyph follower has just
\* taken in the same frame, and the raw pointer position reaches the trail
\* only through the glyph follower.
C22_TrailFollowsCursor ==
  [][(frames' = frames + 1)
       => /\ trailPos'.x = trailPos.x + RoundDiv((cursorPos'.x - trailPos.x) * 8, 100)
          /\ trailPos'.y = trailPos.y + RoundDiv((cursorPos'.y - trailPos.y) * 8, 100)]_vars

\* some frames after a pointer move: the glyph follower is away from the
\* pointer, and the trail, on its way, away from both
C22_Witness ==
  /\ moves > 0
  /\ frames >= 2
  /\ cursorPos # mousePos
  /\ trailPos # Origin
  /\ trailPos # cursorPos
  /\ trailPos # mousePos

(***************************************************************************)
(* Frame loops                                                             *)
(***************************************************************************)
\* the per-frame loops that are running: App's callback on gsap.ticker
\* (Lenis, and through it ScrollTrigger and the mesh transform), the
\* requestAnimationFrame chain of CustomCursor's animate (the cursor
\* spring), and the canvas render loop calling LiquidMesh's useFrame (the
\* uniforms and the mouse-reactive offset)
FrameLoops ==
  (IF tickerFns > 0 THEN {"gsap.ticker"} ELSE {})
    \cup (IF rafPending THEN {"requestAnimationFrame"} ELSE {})
    \cup (IF meshRef # 0 THEN {"useFrame"} ELSE {})

\* C23 as stated: while the page is mounted the one ticker is the only
\* per-frame loop; no consumer has a frame loop of its own.
C23_OneTicker == mounted => FrameLoops \subseteq {"gsap.ticker"}

\* C23: the per-frame consumers run from three loops.  While the page is
\* mounted, App's ticker callback and CustomCursor's own animation-frame
\* chain are both running, and the canvas render loop runs beside them
\* once the mesh component is mounted; unmounted, none is left.
C23_ThreeLoops ==
  /\ mounted => {"gsap.ticker", "requestAnimationFrame"} \subseteq FrameLoops
  /\ mounted => ("useFrame" \in FrameLoops <=> meshRef # 0)
  /\ mounted => (tickerFns = 1 /\ rafPending)
  /\ ~mounted => FrameLoops = {}

\* all three loops are running and the ticker's pass has written the
\* scroll progress and the mesh transform
C23_Witness ==
  /\ mounted
  /\ Cardinality(FrameLoops) = 3
  /\ scrollRef > 0
  /\ mesh[meshRef] = MapTransform(scrollRef)

(***************************************************************************)
(* Shader uniforms                                                         *)
(***************************************************************************)
\* a render frame: a step of the mounted page with the mesh component
\* mounted that is neither a scroll update nor a change of the mesh
RenderFrameStep ==
  /\ mounted /\ mounted'
  /\ meshRef # 0 /\ meshRef' = meshRef
  /\ scrollY' = scrollY

\* C24: no frame update throws, and every render frame leaves the shader's
\* scroll-progress uniform at the value the scroll tracker last wrote to
\* scrollRef.current, a value in [0,1].
C24_UniformFollowsScrollRef ==
  /\ [](~threw)
  /\ [][RenderFrameStep
          => (uScrollProgress' = scrollRef /\ uScrollProgress' \in 0..ONE)]_vars

\* C25: with the target fixed, a render frame moves each uParticleMode
\* uniform toward the target by 5% of the remaining distance (up to one
\* unit of the representation), never across it and never away from it,
\* and the frames bring the uniform as close to the target as the
\* representation resolves (within 0.002) and keep it there.
C25_LerpTowardTarget ==
  /\ [][(currentParticleMode' = currentParticleMode /\ meshRef # 0 /\ meshRef' = meshRef)
          => \A k \in {"material", "particles"} :
               LET d == Abs(currentParticleMode - uParticleMode[k])
                   e == Abs(currentParticleMode - uParticleMode'[k])
               IN  /\ e <= d
                   /\ Abs((d - e) - (d * 5) \div 100) <= 1
                   /\ uParticleMode[k] <= currentParticleMode
                        => uParticleMode'[k] \in uParticleMode[k]..currentParticleMode
                   /\ uParticleMode[k] >= currentParticleMode
                        => uParticleMode'[k] \in currentParticleMode..uParticleMode[k]]_vars
  /\ <>[](\A k \in {"material", "particles"} :
            Abs(currentParticleMode - uParticleMode[k]) <= ONE \div 500)

\* frames have brought the uniforms from below half to within 0.002 of the
\* target 1, short of it
C25_Witness ==
  /\ currentParticleMode = ONE
  /\ uParticleMode.material \in (ONE - ONE \div 500)..(ONE - 2)
  /\ uParticleMode.particles = uParticleMode.material

\* C26: with LiquidMesh mounted, the solid mesh or the point cloud is
\* visible, whatever the particle mode: the mesh exactly when 1 minus the
\* mode exceeds 0.01, the points exactly when the mode exceeds 0.01, and
\* exactly one of the two when the mode is 0 or 1.
C26_OneVisible ==
  (mounted /\ meshRef # 0)
    => /\ meshVisible(currentParticleMode) \/ pointsVisible(currentParticleMode)
       /\ meshVisible(currentParticleMode) <=> (ONE - currentParticleMode) * 100 > ONE
       /\ pointsVisible(currentParticleMode) <=> currentParticleMode * 100 > ONE
       /\ currentParticleMode \in {0, ONE}
            => (meshVisible(currentParticleMode) <=> ~pointsVisible(currentParticleMode))

\* the mode is 0.995, where the mesh's opacity is 0.005: frames have been
\* rendered with the points shown and the mesh hidden
C26_Witness ==
  /\ meshRef # 0
  /\ currentParticleMode = ONE - ONE \div 200
  /\ pointsVisible(currentParticleMode)
  /\ ~meshVisible(currentParticleMode)
  /\ uParticleMode.material \notin LerpSamples

\* C27: whenever a mesh is in meshRef, its rotation and position are the
\* mapper's values for the current scrollRef.current, also when the mesh
\* was mounted after the last scroll update.
C27_TransformMatchesProgress ==
  (mounted /\ meshRef # 0) => mesh[meshRef] = MapTransform(scrollRef)

\* C28: only the Projects section's callbacks write the particle mode, and
\* only 0 or 1.  A scroll update calls setParticleMode at most once per
\* callback the Projects section's two triggers fire, always with 0 or 1;
\* an update that fires none of them, whatever thresholds of other
\* sections it crosses, makes no call and leaves particleMode as it was.
C28_OnlyProjectsWrites ==
  /\ [](particleMode \in {0, ONE})
  /\ [][ScrollUpdateStep
          => LET e == EntryFires(ProjectSection, scrollY, scrollY')
                 x == ExitFires(ProjectSection, scrollY, scrollY')
             IN  /\ \A k \in 1..Len(pmCalls') : pmCalls'[k] \in {0, ONE}
                 /\ Len(pmCalls') <= Len(e) + Len(x)
                 /\ (e = <<>> /\ x = <<>>)
                      => (pmCalls' = <<>> /\ particleMode' = particleMode)]_vars

\* the particle mode is 1 and the last scroll update, which ended above
\* the Projects section's entry start and inside the range of the second
\* section's triggers, made no call
C28_Witness ==
  /\ mounted
  /\ particleMode = ONE
  /\ pmCalls = <<>>
  /\ scrollY > EntryStart(2)
  /\ scrollY < ExitEnd(2)

\* The App's effect runs again on the page it already ran on (a hot reload
\* of the module, or React running the effect a second time): the cleanup
\* of the first run, then the effect's body.  The cleanup reverts the
\* animations, destroys Lenis and removes the ticker callback; it leaves the
\* spans the text splitting wrote in the page, and the body splits the
\* heading and the paragraph it finds there.  Refs and React state persist.
EffectRerun ==
  /\ mounted
  /\ ctxLive' = TRUE
  /\ lenis' = "live"
  /\ tickerFns' = tickerAdd(tickerRemove(tickerFns))
  /\ lagSmoothing' = 0
  /\ schedule' = EntryChildren(dom)
  /\ headingEl' = splitTextIntoChars(headingEl)
  /\ paragraphEl' = splitTextIntoWords(paragraphEl)
  /\ entryTl' = NewEntryTl
  /\ exitTl' = NewExitTl
  /\ content' = EntryRender(NaturalContent, 0)
  /\ setters' = 0
  /\ UNCHANGED <<mounted, stale, cameraVars, dom, scene, jsx>>
  /\ UNCHANGED <<scrollY, scrollRef, target, particleMode, pmCalls>>
  /\ UNCHANGED <<meshRef, mesh, built, renderVars, threw, tweens, cursorRefs>>
  /\ UNCHANGED <<listeners, rafPending>>

\* The page's texts through mounts, unmounts and reruns of the effect.
NextSplit == AppMount \/ AppUnmount \/ EffectRerun

SpecSplit == InitSplit /\ [][NextSplit]_vars

\* the words of a text: what splitTextIntoWords makes spans of on a first
\* split
WordsOf(el) == [k \in 1..Len(SpansOf(el, "split-word")) |-> SpansOf(el, "split-word")[k].text]

(***************************************************************************)
(* C29: text splitting is stable across a second application: while the    *)
(* page is mounted, whether the effect ran once or again on the already     *)
(* split elements, the paragraph holds one word span per word of its text   *)
(* with the same words, and the heading holds one character span per        *)
(* character of its text.                                                  *)
(***************************************************************************)
C29_SplitStable ==
  mounted =>
    /\ WordsOf(paragraphEl) = SplitWords(jsx.paragraph)
    /\ Len(SpansOf(headingEl, "split-char")) = Len(jsx.heading)

(***************************************************************************)
(* C30: through mounts, unmounts and reruns of the effect the ticker holds *)
(* at most one callback of the App, exactly one while the App is mounted   *)
(* and none while it is not; a mount that follows an unmount starts from   *)
(* an empty ticker and leaves one callback, and a rerun of the effect      *)
(* leaves one.                                                             *)
(***************************************************************************)
C30_OneTickerCallback ==
  /\ [](tickerFns <= 1 /\ (mounted <=> tickerFns = 1))
  /\ [][(~mounted /\ lagSmoothing = 0 /\ mounted') =>
          (tickerFns = 0 /\ tickerFns' = 1)]_vars
  /\ [][(mounted /\ mounted') => tickerFns' = 1]_vars

\* mounted with one callback after the effect ran a second time: the
\* paragraph's words are no longer those of a first split
C30_Witness ==
  /\ mounted
  /\ tickerFns = 1
  /\ lagSmoothing = 0
  /\ WordsOf(paragraphEl) # SplitWords(jsx.paragraph)

====
